---- MODULE Spec2Model ----
(***************************************************************************)
(* A model of the domain scanner of src/domain_checker.py: the sequence    *)
(* generator, the batch partitioner, the thread pool running one task per  *)
(* batch, the per-domain checker and the two result files.                 *)
(*                                                                         *)
(* A string is a sequence of one-character strings, so that the code's     *)
(* character arithmetic (isdigit, isalpha, lower, int, str, zfill, the     *)
(* odometer increment) is computed and not assumed.                        *)
(***************************************************************************)
EXTENDS Integers, Sequences, FiniteSets, TLC

(***************************************************************************)
(* Bounds of the model.                                                    *)
(***************************************************************************)
\* The longest start/end string the generator specification draws.
MaxLen == 2
\* The most labels list(generate_sequence(...)) is followed for.
MaxYield == 30
\* The largest numeric end label of the scanning specification ("00k").
MaxEnd == 2

(***************************************************************************)
(* Program constants.                                                      *)
(***************************************************************************)
\* if num_threads > 10: num_threads = 10
MaxThreads == 10

(***************************************************************************)
(* Characters and the str methods the code uses.                           *)
(***************************************************************************)
Digits == <<"0", "1", "2", "3", "4", "5", "6", "7", "8", "9">>

LowerCase == <<"a", "b", "c", "d", "e", "f", "g", "h", "i", "j", "k", "l", "m",
               "n", "o", "p", "q", "r", "s", "t", "u", "v", "w", "x", "y", "z">>

UpperCase == <<"A", "B", "C", "D", "E", "F", "G", "H", "I", "J", "K", "L", "M",
               "N", "O", "P", "Q", "R", "S", "T", "U", "V", "W", "X", "Y", "Z">>

Range(s) == {s[i] : i \in 1..Len(s)}

IndexOf(c, s) == CHOOSE i \in 1..Len(s) : s[i] = c

\* str.isdigit(): non-empty and every character a digit.
IsDigit(s) == Len(s) > 0 /\ \A i \in 1..Len(s) : s[i] \in Range(Digits)

\* str.isalpha(): non-empty and every character a letter.
IsAlpha(s) == Len(s) > 0 /\ \A i \in 1..Len(s) : s[i] \in Range(LowerCase) \cup Range(UpperCase)

LowerChar(c) == IF c \in Range(UpperCase) THEN LowerCase[IndexOf(c, UpperCase)] ELSE c

\* str.lower()
Lower(s) == [i \in 1..Len(s) |-> LowerChar(s[i])]

\* ord() of a lower-case letter or a digit (ASCII).
Ord(c) == IF c \in Range(LowerCase) THEN 96 + IndexOf(c, LowerCase)
          ELSE IF c \in Range(UpperCase) THEN 64 + IndexOf(c, UpperCase)
          ELSE 47 + IndexOf(c, Digits)

\* chr(ord(c) + 1), for a lower-case letter below 'z'.
ChrSucc(c) == LowerCase[IndexOf(c, LowerCase) + 1]

RECURSIVE ParseInt(_)
\* int(s) of an all-digit string.
ParseInt(s) == IF Len(s) = 0 THEN 0
               ELSE 10 * ParseInt(SubSeq(s, 1, Len(s) - 1)) + (IndexOf(s[Len(s)], Digits) - 1)

RECURSIVE Str(_)
\* str(n) of a non-negative integer.
Str(n) == IF n < 10 THEN <<Digits[n + 1]>>
          ELSE Str(n \div 10) \o <<Digits[(n % 10) + 1]>>

\* A zfill that does not pad.
ZFillUnpadded(s, width) == s

RECURSIVE ZFill(_, _)
\* str.zfill(width)
ZFill(s, width) == IF Len(s) >= width THEN s ELSE ZFill(<<"0">> \o s, width)

Max(a, b) == IF a >= b THEN a ELSE b

\* A length test that accepts any two strings.
AnyLength(a, b) == TRUE

\* len(start) == len(end)
SameLength(a, b) == Len(a) = Len(b)

\* A loop that runs until num reaches end_num + 1 exactly.
InRangeUntilEqual(num, end_num) == num # end_num + 1

\* num is still in range(start_num, end_num + 1), counting up from start_num.
InRange(num, end_num) == num < end_num + 1

RECURSIVE ListLeq(_, _)
\* a <= b on lists of characters (Python's lexicographic list comparison).
ListLeq(a, b) == IF Len(a) = 0 THEN TRUE
                 ELSE IF Len(b) = 0 THEN FALSE
                 ELSE IF Ord(a[1]) < Ord(b[1]) THEN TRUE
                 ELSE IF Ord(a[1]) > Ord(b[1]) THEN FALSE
                 ELSE ListLeq(Tail(a), Tail(b))

RECURSIVE Increment(_, _)
\* The odometer step of generate_sequence, from position i down to 1: a
\* character below 'z' is advanced and the loop breaks, a 'z' is set to 'a'
\* and the carry moves left; running off the left end leaves all 'a'.
Increment(current, i) ==
    IF i = 0 THEN current
    ELSE IF Ord(current[i]) < Ord("z")
         THEN [current EXCEPT ![i] = ChrSucc(current[i])]
         ELSE Increment([current EXCEPT ![i] = "a"], i - 1)

Min(a, b) == IF a <= b THEN a ELSE b

\* A quotient rounded down.
Floor(a, b) == a \div b

\* math.ceil(a / b) for a >= 0 and b > 0.
Ceil(a, b) == (a + b - 1) \div b

\* The Python slice s[i:j] (0-based, end clamped to the length).
Slice(s, i, j) == SubSeq(s, i + 1, Min(j, Len(s)))

\* Slices that reach one label into the next batch.
OverlappingBatches(doms, batch_size) ==
    [k \in 1..((Len(doms) + batch_size - 1) \div batch_size) |->
        SubSeq(doms, (k - 1) * batch_size + 1,
               IF k * batch_size + 1 <= Len(doms) THEN k * batch_size + 1 ELSE Len(doms))]

\* [domains[i:i + batch_size] for i in range(0, total_domains, batch_size)],
\* for batch_size > 0: range() has ceil(total / batch_size) elements.
DomainBatches(doms, batch_size) ==
    [k \in 1..Ceil(Len(doms), batch_size) |->
        Slice(doms, (k - 1) * batch_size, (k - 1) * batch_size + batch_size)]

\* tld: str = "xyz"; self.tld = tld.strip('.')
Tld == <<"x", "y", "z">>

\* full_domain = f"{domain}.{self.tld}"
FullDomain(label) == label \o <<".">> \o Tld

\* A target choice that ignores the classification.
TargetFileAlwaysRegistered(is_available) == "registered"

\* target_file = self.available_file if is_available else self.registered_file
TargetFile(is_available) == IF is_available THEN "available" ELSE "registered"

\* The marker: "DOMAIN NOT FOUND".
Marker == <<"D", "O", "M", "A", "I", "N", " ", "N", "O", "T", " ", "F", "O", "U", "N", "D">>

\* The kinds of output subprocess.run can capture.
OutputKinds == {"DOMAIN NOT FOUND", "registered", "empty", "domain not found",
                "embedded", "truncated"}

\* result.stdout of each kind of output, as text: the marker on a line of its
\* own, a registry record, nothing, the marker in lower case, the marker
\* inside a longer line, the marker without its last character.
Stdout(kind) ==
    CASE kind = "DOMAIN NOT FOUND" -> Marker \o <<"\n">>
      [] kind = "registered" -> <<"D", "o", "m", "a", "i", "n", " ", "N", "a", "m", "e", ":">>
      [] kind = "empty" -> <<>>
      [] kind = "domain not found" -> Lower(Marker)
      [] kind = "embedded" -> <<">", " ">> \o Marker \o <<" ", "<", "\n">>
      [] kind = "truncated" -> SubSeq(Marker, 1, Len(Marker) - 1)
      [] OTHER -> <<>>

\* sub in s, on strings.
Contains(sub, s) ==
    \E i \in 0..(Len(s) - Len(sub)) : SubSeq(s, i + 1, i + Len(sub)) = sub

\* A classification by equality with the marker.
IsAvailableExact(stdout) == stdout = Marker

\* is_available = "DOMAIN NOT FOUND" in result.stdout
IsAvailable(stdout) == Contains(Marker, stdout)

\* What subprocess.run(['whois', domain], capture_output=True, text=True) can
\* do: return output with or without the marker, raise a SubprocessError, or
\* raise another exception (OSError when the process cannot be started,
\* UnicodeDecodeError when its output cannot be decoded).
Outcomes == {"DOMAIN NOT FOUND", "registered", "SubprocessError", "OSError"}

\* The header __init__ writes to each file: a title line and a separator.
Header == << [kind |-> "title", domain |-> <<>>], [kind |-> "separator", domain |-> <<>>] >>

DomainLine(domain) == [kind |-> "domain", domain |-> domain]

\* A write that opens the file with mode 'w'.
TruncatingWrite(file, line) == <<line>>

\* with open(target_file, 'a') as f: f.write(f"{domain}\n")
AppendLine(file, line) == Append(file, line)

\* A lock that is never waited for.
LockIgnored(lock) == TRUE

\* with self.print_lock: the block is entered when no thread holds the lock.
LockFree(lock) == lock = {}

\* An __init__ without the clamp.
Unclamped(n) == n

\* The num_threads __init__ keeps.
Clamp(n) == IF n > MaxThreads THEN MaxThreads ELSE n

(***************************************************************************)
(* State.                                                                  *)
(***************************************************************************)
VARIABLES
    start,            \* check_domains' start argument
    end,              \* check_domains' end argument
    requested,        \* the num_threads argument of DomainChecker(...)
    outcomes,         \* what the lookup tool can do in this environment
    whois,            \* the lookup tool as a function: the outcome of each domain looked up so far
    num_threads,      \* self.num_threads
    print_lock,       \* self.print_lock: the set of its holders (0: the main thread, t: task t)
    available_file,   \* the lines of self.available_file
    registered_file,  \* the lines of self.registered_file
    pc,               \* the main thread's position in check_domains
    error,            \* the exception main() caught, or "none"
    gen,              \* the generator object of generate_sequence
    domains,          \* domains, as list() has filled it so far
    domain_batches,   \* domain_batches
    futures,          \* future_to_batch and each task's frame in check_domains_worker / check_domain
    collected,        \* the futures as_completed has yielded
    batch_num,        \* batch_num of the as_completed loop (0 before the first future)
    results,          \* results of check_domains
    summary,          \* the counts the summary prints
    run,              \* 1, or 2 in the second of two runs over the same range
    prev_results      \* the results the first of two runs returned

\* The number of check_posts calls the model follows, and the number of
\* posts on the forum's page.
MaxChecks == 5

PageLen == 500

\* The number of attempts of the buyer the model follows.
MaxAttempts == 12

\* CMHKBuyer.run (cmhk_buyer.py): the position in run, the local
\* consecutive_errors, self.attempt_count, and the record of the run: the
\* number of failed attempts in a row and whether the last reset of the
\* counter followed a failed attempt.
VARIABLES buyer_pc, consecutive_errors, attempt_count, failed_in_row, reset_after_failure

buyer == <<buyer_pc, consecutive_errors, attempt_count, failed_in_row, reset_after_failure>>

\* The other programs of the repository; a run of the domain checker leaves
\* them alone.
\* NodeseekMonitor (nodeseek_monitor.py): self.seen_posts, the post ids a
\* notification was sent for, the ones a further notification was sent for,
\* the number of error reports sent, the id of the newest post of the forum,
\* and the number of check_posts calls so far.
VARIABLES seen_posts, notified, renotified, error_reports, newest, checks

monitor == <<seen_posts, notified, renotified, error_reports, newest, checks>>

others == <<buyer, monitor>>

checker == <<start, end, requested, outcomes, whois, num_threads, print_lock, available_file,
             registered_file, pc, error, gen, domains, domain_batches, futures,
             collected, batch_num, results, summary, run, prev_results>>

vars == <<checker, others>>

\* buyer = CMHKBuyer(), before buyer.run(): attempt_count = 0.
InitBuyer ==
    /\ buyer_pc = "start"
    /\ consecutive_errors = 0
    /\ attempt_count = 0
    /\ failed_in_row = 0
    /\ reset_after_failure = FALSE

\* monitor = NodeseekMonitor(keyword_groups_to_monitor): seen_posts = set().
InitMonitor ==
    /\ seen_posts = {}
    /\ notified = {}
    /\ renotified = {}
    /\ error_reports = 0
    /\ newest = 0
    /\ checks = 0

inputs == <<start, end, requested, outcomes>>
files == <<available_file, registered_file>>
pool == <<futures, collected, batch_num, results, print_lock, files, whois>>
history == <<run, prev_results>>

NewGenerator == [state |-> "created", pad_length |-> 0, num |-> 0, end_num |-> 0,
                 current |-> <<>>, end_chars |-> <<>>]

\* DomainChecker(num_threads = requested) followed by the call of
\* check_domains(s, e): the files hold their headers, nothing is generated yet.
InitWith(s, e, req, outs) ==
    /\ start = s
    /\ end = e
    /\ requested = req
    /\ outcomes = outs
    /\ whois = <<>>
    /\ num_threads = Clamp(req)
    /\ print_lock = {}
    /\ available_file = Header
    /\ registered_file = Header
    /\ pc = "generate"
    /\ error = "none"
    /\ gen = NewGenerator
    /\ domains = <<>>
    /\ domain_batches = <<>>
    /\ futures = <<>>
    /\ collected = {}
    /\ batch_num = 0
    /\ results = <<>>
    /\ summary = [available |-> 0, registered |-> 0]
    /\ run = 1
    /\ prev_results = <<>>
    /\ InitBuyer
    /\ InitMonitor

(***************************************************************************)
(* generate_sequence, as list() drives it.                                 *)
(***************************************************************************)
\* The first next(): both arguments numeric.
GenerateNumeric ==
    /\ pc = "generate" /\ gen.state = "created"
    /\ IsDigit(start) /\ IsDigit(end)
    /\ gen' = [gen EXCEPT !.state = "numeric",
                          !.pad_length = Max(Len(start), Len(end)),
                          !.num = ParseInt(start),
                          !.end_num = ParseInt(end)]
    /\ UNCHANGED <<inputs, others, num_threads, pc, error, domains, domain_batches,
                   summary, pool, history>>

\* The first next(): both arguments alphabetic and of the same length.
GenerateAlpha ==
    /\ pc = "generate" /\ gen.state = "created"
    /\ ~(IsDigit(start) /\ IsDigit(end))
    /\ IsAlpha(start) /\ IsAlpha(end) /\ SameLength(start, end)
    /\ gen' = [gen EXCEPT !.state = "alpha",
                          !.current = Lower(start),
                          !.end_chars = Lower(end)]
    /\ UNCHANGED <<inputs, others, num_threads, pc, error, domains, domain_batches,
                   summary, pool, history>>

\* The first next(): anything else raises ValueError, which leaves
\* check_domains and is caught by main()'s except Exception.
GenerateRaise ==
    /\ pc = "generate" /\ gen.state = "created"
    /\ ~(IsDigit(start) /\ IsDigit(end))
    /\ ~(IsAlpha(start) /\ IsAlpha(end) /\ SameLength(start, end))
    /\ gen' = [gen EXCEPT !.state = "raised"]
    /\ pc' = "error"
    /\ error' = "ValueError"
    /\ UNCHANGED <<inputs, others, num_threads, domains, domain_batches, summary, pool, history>>

\* for num in range(start_num, end_num + 1): yield str(num).zfill(pad_length)
YieldNumeric ==
    /\ pc = "generate" /\ gen.state = "numeric"
    /\ InRange(gen.num, gen.end_num)
    /\ Len(domains) < MaxYield
    /\ domains' = Append(domains, ZFill(Str(gen.num), gen.pad_length))
    /\ gen' = [gen EXCEPT !.num = gen.num + 1]
    /\ UNCHANGED <<inputs, others, num_threads, pc, error, domain_batches, summary, pool, history>>

\* while current <= end_chars: yield ''.join(current); increment current
YieldAlpha ==
    /\ pc = "generate" /\ gen.state = "alpha"
    /\ ListLeq(gen.current, gen.end_chars)
    /\ Len(domains) < MaxYield
    /\ domains' = Append(domains, gen.current)
    /\ gen' = [gen EXCEPT !.current = Increment(gen.current, Len(gen.current))]
    /\ UNCHANGED <<inputs, others, num_threads, pc, error, domain_batches, summary, pool, history>>

\* The generator is exhausted: list() returns and total_domains is known.
GeneratorExhausted ==
    /\ pc = "generate"
    /\ \/ gen.state = "numeric" /\ ~InRange(gen.num, gen.end_num)
       \/ gen.state = "alpha" /\ ~ListLeq(gen.current, gen.end_chars)
    /\ gen' = [gen EXCEPT !.state = "exhausted"]
    /\ pc' = "partition"
    /\ UNCHANGED <<inputs, others, num_threads, error, domains, domain_batches, summary, pool, history>>

Generate ==
    \/ GenerateNumeric
    \/ GenerateAlpha
    \/ GenerateRaise
    \/ YieldNumeric
    \/ YieldAlpha
    \/ GeneratorExhausted

(***************************************************************************)
(* check_domains: partitioning, submission, collection, summary.           *)
(***************************************************************************)
\* batch_size = math.ceil(total_domains / self.num_threads)
BatchSize(total_domains, threads) == Ceil(total_domains, threads)

\* The batches are computed. With batch_size = 0, range(0, total, 0) raises
\* ValueError, which leaves check_domains and is caught by main().
Partition ==
    /\ pc = "partition"
    /\ LET batch_size == BatchSize(Len(domains), num_threads) IN
         IF batch_size = 0
         THEN /\ pc' = "error"
              /\ error' = "ValueError"
              /\ UNCHANGED domain_batches
         ELSE /\ domain_batches' = DomainBatches(domains, batch_size)
              /\ pc' = "submit"
              /\ UNCHANGED error
    /\ UNCHANGED <<inputs, others, num_threads, gen, domains, summary, pool, history>>

\* A future as executor.submit returns it, with the frame its task will run in.
NewFuture == [state |-> "pending", wpc |-> "lookup", idx |-> 1, results |-> <<>>,
              is_available |-> FALSE, slept |-> 0]

\* executor.submit(self.check_domains_worker, batch) for the next batch;
\* after the last one the main thread enters the as_completed loop.
Submit ==
    /\ pc = "submit"
    /\ Len(futures) < Len(domain_batches)
    /\ futures' = Append(futures, NewFuture)
    /\ pc' = IF Len(futures) + 1 = Len(domain_batches) THEN "collect" ELSE "submit"
    /\ UNCHANGED <<inputs, others, num_threads, error, gen, domains, domain_batches, summary,
                   collected, batch_num, results, print_lock, files, whois, history>>

Tasks == 1..Len(futures)

Running == {t \in Tasks : futures[t].state = "running"}

\* A pool thread takes task t from the work queue: ThreadPoolExecutor has at
\* most max_workers = num_threads threads.
StartTask(t) ==
    /\ futures[t].state = "pending"
    /\ Cardinality(Running) < num_threads
    /\ futures' = [futures EXCEPT ![t].state = "running"]
    /\ UNCHANGED <<inputs, others, num_threads, pc, error, gen, domains, domain_batches, summary,
                   collected, batch_num, results, print_lock, files, whois, history>>

\* The domain task t is checking.
CurrentDomain(t) == FullDomain(domain_batches[t][futures[t].idx])

\* check_domain returns `result` to check_domains_worker: results.append(result),
\* then the next domain of the batch, or return results.
Returned(f, t, result) ==
    LET rs == Append(f.results, result) IN
    IF f.idx = Len(domain_batches[t])
    THEN [f EXCEPT !.results = rs, !.state = "finished", !.wpc = "returned"]
    ELSE [f EXCEPT !.results = rs, !.idx = f.idx + 1, !.wpc = "lookup"]

\* subprocess.run(['whois', domain], ...) and the classification of its output.
Lookup(t) ==
    /\ futures[t].state = "running" /\ futures[t].wpc = "lookup"
    /\ LET d == CurrentDomain(t) IN
       \E o \in (IF d \in DOMAIN whois THEN {whois[d]} ELSE outcomes) :
         /\ whois' = IF d \in DOMAIN whois THEN whois ELSE whois @@ (d :> o)
         /\ futures' =
              IF o = "OSError"
              THEN \* not a SubprocessError: the exception leaves check_domain and
                   \* check_domains_worker and is set on the future
                   [futures EXCEPT ![t].state = "raised", ![t].wpc = "raised"]
              ELSE IF o = "SubprocessError"
              THEN [futures EXCEPT ![t].wpc = "except"]
              ELSE [futures EXCEPT ![t].is_available = IsAvailable(Stdout(o)), ![t].wpc = "write"]
    /\ UNCHANGED <<inputs, others, num_threads, pc, error, gen, domains, domain_batches, summary,
                   collected, batch_num, results, print_lock, files, history>>

\* write_to_file: with self.print_lock: append the domain to the target file.
WriteToFile(t) ==
    /\ futures[t].state = "running" /\ futures[t].wpc = "write"
    /\ LockFree(print_lock)
    /\ print_lock' = print_lock \cup {t}
    /\ IF TargetFile(futures[t].is_available) = "available"
       THEN /\ available_file' = AppendLine(available_file, DomainLine(CurrentDomain(t)))
            /\ UNCHANGED registered_file
       ELSE /\ registered_file' = AppendLine(registered_file, DomainLine(CurrentDomain(t)))
            /\ UNCHANGED available_file
    /\ futures' = [futures EXCEPT ![t].wpc = "written"]
    /\ UNCHANGED <<inputs, others, num_threads, pc, error, gen, domains, domain_batches, summary,
                   collected, batch_num, results, whois, history>>

\* The end of write_to_file's with block.
WriteRelease(t) ==
    /\ futures[t].state = "running" /\ futures[t].wpc = "written"
    /\ print_lock' = print_lock \ {t}
    /\ futures' = [futures EXCEPT ![t].wpc = "print"]
    /\ UNCHANGED <<inputs, others, num_threads, pc, error, gen, domains, domain_batches, summary,
                   collected, batch_num, results, files, whois, history>>

\* with self.print_lock: print(f"Checked: {domain}")
PrintChecked(t) ==
    /\ futures[t].state = "running" /\ futures[t].wpc = "print"
    /\ LockFree(print_lock)
    /\ print_lock' = print_lock \cup {t}
    /\ futures' = [futures EXCEPT ![t].wpc = "printed"]
    /\ UNCHANGED <<inputs, others, num_threads, pc, error, gen, domains, domain_batches, summary,
                   collected, batch_num, results, files, whois, history>>

PrintRelease(t) ==
    /\ futures[t].state = "running" /\ futures[t].wpc = "printed"
    /\ print_lock' = print_lock \ {t}
    /\ futures' = [futures EXCEPT ![t].wpc = "sleep"]
    /\ UNCHANGED <<inputs, others, num_threads, pc, error, gen, domains, domain_batches, summary,
                   collected, batch_num, results, files, whois, history>>

\* time.sleep(self.sleep_time); return domain, is_available
Sleep(t) ==
    /\ futures[t].state = "running" /\ futures[t].wpc = "sleep"
    /\ futures' = [futures EXCEPT ![t] =
                     Returned([futures[t] EXCEPT !.slept = futures[t].slept + 1], t,
                              <<CurrentDomain(t), futures[t].is_available>>)]
    /\ UNCHANGED <<inputs, others, num_threads, pc, error, gen, domains, domain_batches, summary,
                   collected, batch_num, results, print_lock, files, whois, history>>

\* except subprocess.SubprocessError: with self.print_lock: print(f"Error checking domain {domain}")
PrintError(t) ==
    /\ futures[t].state = "running" /\ futures[t].wpc = "except"
    /\ LockFree(print_lock)
    /\ print_lock' = print_lock \cup {t}
    /\ futures' = [futures EXCEPT ![t].wpc = "error_printed"]
    /\ UNCHANGED <<inputs, others, num_threads, pc, error, gen, domains, domain_batches, summary,
                   collected, batch_num, results, files, whois, history>>

\* The end of the except clause's with block; return domain, False
ErrorReturn(t) ==
    /\ futures[t].state = "running" /\ futures[t].wpc = "error_printed"
    /\ print_lock' = print_lock \ {t}
    /\ futures' = [futures EXCEPT ![t] = Returned(futures[t], t, <<CurrentDomain(t), FALSE>>)]
    /\ UNCHANGED <<inputs, others, num_threads, pc, error, gen, domains, domain_batches, summary,
                   collected, batch_num, results, files, whois, history>>

\* as_completed yields a finished future: results.extend(future.result())
CollectResults(t) ==
    /\ pc = "collect"
    /\ t \notin collected
    /\ futures[t].state = "finished"
    /\ collected' = collected \cup {t}
    /\ batch_num' = t - 1
    /\ results' = results \o futures[t].results
    /\ UNCHANGED <<inputs, others, num_threads, pc, error, gen, domains, domain_batches, summary,
                   futures, print_lock, files, whois, history>>

\* as_completed yields a future whose task raised: future.result() raises,
\* except Exception: with self.print_lock: print(f"Error in batch {batch_num}: {e}")
\* A collection loop without the except clause: the batch's exception leaves
\* check_domains.
CollectErrorAbort(t) ==
    /\ pc = "collect"
    /\ t \notin collected
    /\ futures[t].state = "raised"
    /\ collected' = collected \cup {t}
    /\ batch_num' = t - 1
    /\ pc' = "error"
    /\ error' = "OSError"
    /\ UNCHANGED <<inputs, others, num_threads, gen, domains, domain_batches, summary,
                   futures, results, print_lock, files, whois, history>>

\* except Exception as e: with self.print_lock: print(f"Error in batch {batch_num}: {e}")
CollectError(t) ==
    /\ pc = "collect"
    /\ t \notin collected
    /\ futures[t].state = "raised"
    /\ LockFree(print_lock)
    /\ print_lock' = print_lock \cup {0}
    /\ collected' = collected \cup {t}
    /\ batch_num' = t - 1
    /\ pc' = "batch_error_printed"
    /\ UNCHANGED <<inputs, others, num_threads, error, gen, domains, domain_batches, summary,
                   futures, results, files, whois, history>>

\* The end of the with block in the except clause of the as_completed loop.
CollectErrorRelease ==
    /\ pc = "batch_error_printed"
    /\ print_lock' = print_lock \ {0}
    /\ pc' = "collect"
    /\ UNCHANGED <<inputs, others, num_threads, error, gen, domains, domain_batches, summary,
                   futures, collected, batch_num, results, files, whois, history>>

\* sum(1 for _, available in results if available)
AvailableCount(rs) == Cardinality({i \in 1..Len(rs) : rs[i][2]})

\* A summary printed without waiting for the futures.
SummaryEarly ==
    /\ pc = "collect"
    /\ summary' = [available |-> AvailableCount(results),
                   registered |-> Len(results) - AvailableCount(results)]
    /\ pc' = "done"
    /\ UNCHANGED <<inputs, others, num_threads, error, gen, domains, domain_batches, pool, history>>

\* Every future has been yielded: the with block ends and the summary is printed.
Summary ==
    /\ pc = "collect"
    /\ collected = Tasks
    /\ summary' = [available |-> AvailableCount(results),
                   registered |-> Len(results) - AvailableCount(results)]
    /\ pc' = "done"
    /\ UNCHANGED <<inputs, others, num_threads, error, gen, domains, domain_batches, pool, history>>

Scan ==
    \/ Generate
    \/ Partition
    \/ Submit
    \/ \E t \in Tasks : StartTask(t)
    \/ \E t \in Tasks : Lookup(t)
    \/ \E t \in Tasks : WriteToFile(t)
    \/ \E t \in Tasks : WriteRelease(t)
    \/ \E t \in Tasks : PrintChecked(t)
    \/ \E t \in Tasks : PrintRelease(t)
    \/ \E t \in Tasks : Sleep(t)
    \/ \E t \in Tasks : PrintError(t)
    \/ \E t \in Tasks : ErrorReturn(t)
    \/ \E t \in Tasks : CollectResults(t)
    \/ \E t \in Tasks : CollectError(t)
    \/ CollectErrorRelease
    \/ Summary

\* The pool's tasks have all returned or raised.
AllResolved == \A t \in Tasks : futures[t].state \in {"finished", "raised"}

\* A KeyboardInterrupt that empties the result files and drops the tasks.
InterruptRollback ==
    /\ pc \in {"generate", "partition", "submit", "collect", "batch_error_printed", "shutdown"}
    /\ pc' = "interrupted"
    /\ error' = "KeyboardInterrupt"
    /\ print_lock' = {}
    /\ available_file' = Header
    /\ registered_file' = Header
    /\ futures' = <<>>
    /\ UNCHANGED <<inputs, others, num_threads, gen, domains, domain_batches, summary,
                   collected, batch_num, results, whois, history>>

\* KeyboardInterrupt in the main thread. Inside the with block of the
\* executor it first runs the block's exit, shutdown(wait=True), which joins
\* the pool's threads; a lock the main thread holds is released on the way.
\* A second one during the join leaves check_domains at once. main() catches
\* it and prints the notice of partial results; the pool's threads go on.
Interrupt ==
    /\ pc \in {"generate", "partition", "submit", "collect", "batch_error_printed", "shutdown"}
    /\ pc' = IF pc \in {"submit", "collect", "batch_error_printed"} THEN "shutdown"
             ELSE "interrupted"
    /\ error' = "KeyboardInterrupt"
    /\ print_lock' = print_lock \ {0}
    /\ UNCHANGED <<inputs, others, num_threads, gen, domains, domain_batches, summary,
                   futures, collected, batch_num, results, files, whois, history>>

\* shutdown(wait=True) returns once every submitted task has run to its end;
\* the KeyboardInterrupt then leaves check_domains and main() prints the
\* notice of partial results.
ShutdownDone ==
    /\ pc = "shutdown"
    /\ AllResolved
    /\ pc' = "interrupted"
    /\ UNCHANGED <<inputs, others, num_threads, error, gen, domains, domain_batches, summary,
                   pool, history>>

Next ==
    \/ Scan
    \/ Interrupt
    \/ ShutdownDone

(***************************************************************************)
(* Specifications.                                                         *)
(***************************************************************************)
\* The label "00k".
NumLabel(k) == ZFill(Str(k), 3)

\* Ranges of mixed class, and alphabetic ranges of different lengths.
MalformedRanges ==
    {<<<<"0">>, <<"a">>>>, <<<<"a">>, <<"a", "a">>>>, <<<<"a", "b">>, <<"z">>>>,
     <<<<"a", "1">>, <<"a", "2">>>>, <<<<"0", "0">>, <<"0", "a">>>>}

\* The scanning specification: the ranges 000..00k, an empty range, an
\* alphabetic range and a malformed one, with 1, 2 or 3 requested workers
\* (25 on the range 000..001) and a lookup tool that can do anything.
ScanConfigs ==
    ({NumLabel(0)} \X {NumLabel(k) : k \in 0..MaxEnd} \X {1, 2, 3} \X {Outcomes})
    \cup ({NumLabel(0)} \X {NumLabel(1)} \X {25} \X {Outcomes})
    \cup ({NumLabel(1)} \X {NumLabel(0)} \X {1, 4} \X {Outcomes})
    \cup ({<<"a">>} \X {<<"b">>, <<"0">>} \X {1} \X {Outcomes})
    \cup {<<r[1], r[2], n, Outcomes>> : r \in MalformedRanges, n \in {1, 4}}

Init == \E c \in ScanConfigs : InitWith(c[1], c[2], c[3], c[4])

Spec == Init /\ [][Next]_vars

\* The uninterrupted scan of a non-empty numeric range by 2 or 3 workers,
\* beside an alphabetic range and a malformed one.
\* The main thread and the pool's threads are scheduled until they block or
\* end, and every lookup returns or raises.
LiveConfigs ==
    ({NumLabel(0)} \X {NumLabel(k) : k \in 1..MaxEnd} \X {2, 3} \X {Outcomes})
    \cup ({<<"a">>} \X {<<"b">>, <<"0">>} \X {2} \X {Outcomes})

InitLive == \E c \in LiveConfigs : InitWith(c[1], c[2], c[3], c[4])

SpecLive == InitLive /\ [][Scan]_vars /\ WF_vars(Scan)

\* open(target_file, 'a') or f.write raises OSError (disk full, file removed)
\* inside write_to_file's with self.print_lock block.
WriteFail(t) ==
    /\ futures[t].state = "running" /\ futures[t].wpc = "write"
    /\ LockFree(print_lock)
    /\ print_lock' = print_lock \cup {t}
    /\ futures' = [futures EXCEPT ![t].wpc = "write_failed"]
    /\ UNCHANGED <<inputs, others, num_threads, pc, error, gen, domains, domain_batches, summary,
                   collected, batch_num, results, files, whois, history>>

\* The with block is left by the exception, which releases the lock; OSError is
\* not a SubprocessError, so it leaves check_domain and check_domains_worker
\* and is set on the future.
WriteFailRelease(t) ==
    /\ futures[t].state = "running" /\ futures[t].wpc = "write_failed"
    /\ print_lock' = print_lock \ {t}
    /\ futures' = [futures EXCEPT ![t].state = "raised", ![t].wpc = "raised"]
    /\ UNCHANGED <<inputs, others, num_threads, pc, error, gen, domains, domain_batches, summary,
                   collected, batch_num, results, files, whois, history>>

\* The scan with a disk that may fail: the uninterrupted scan of SpecLive's
\* ranges in which every append may raise, under the same scheduling.
NextWrite ==
    \/ Scan
    \/ \E t \in Tasks : WriteFail(t)
    \/ \E t \in Tasks : WriteFailRelease(t)

SpecWrite == InitLive /\ [][NextWrite]_vars /\ WF_vars(NextWrite)

\* The classification specification: one and two workers on the range
\* 000..001 with a lookup tool that can return every kind of output, beside
\* an empty, an alphabetic and a malformed range.
ClassifyConfigs ==
    ({NumLabel(0)} \X {NumLabel(1)} \X {1, 2} \X {OutputKinds \cup Outcomes})
    \cup ({NumLabel(1)} \X {NumLabel(0)} \X {1} \X {Outcomes})
    \cup ({<<"a">>} \X {<<"b">>, <<"0">>} \X {1} \X {Outcomes})

InitClassify == \E c \in ClassifyConfigs : InitWith(c[1], c[2], c[3], c[4])

SpecClassify == InitClassify /\ [][Next]_vars

\* The generator specification: generate_sequence alone, as list() drives
\* it, on every pair of strings of at most MaxLen of these characters.
GenChars == {"0", "1", "9", "a", "z", "Z"}

GenStrings == UNION {[1..k -> GenChars] : k \in 0..MaxLen}

InitGen == \E s \in GenStrings, e \in GenStrings : InitWith(s, e, 1, Outcomes)

NextGen == Generate

SpecGen == InitGen /\ [][NextGen]_vars

\* The partitioning specification: generation and partitioning of the
\* ranges 00..k (k < MaxTotal), of an empty range, an alphabetic and a
\* malformed one, for every worker count up to MaxRequested.
MaxTotal == 12

MaxRequested == 12

PartConfigs ==
    ({ZFill(Str(0), 2)} \X {ZFill(Str(k), 2) : k \in 0..(MaxTotal - 1)} \X (1..MaxRequested) \X {Outcomes})
    \cup ({ZFill(Str(1), 2)} \X {ZFill(Str(0), 2)} \X (1..MaxRequested) \X {Outcomes})
    \cup ({<<"a">>} \X {<<"b">>, <<"0">>} \X {1} \X {Outcomes})

InitPart == \E c \in PartConfigs : InitWith(c[1], c[2], c[3], c[4])

NextPart == Generate \/ Partition

SpecPart == InitPart /\ [][NextPart]_vars

\* The dispatch specification: the same lists and worker counts, up to the
\* point where the pool's threads have taken their batches.
NextDispatch ==
    \/ Generate
    \/ Partition
    \/ Submit
    \/ \E t \in Tasks : StartTask(t)

SpecDispatch == InitPart /\ [][NextDispatch]_vars

\* The clamp specification: 25 requested workers on the range 00..09 (10
\* labels) with a lookup tool that does not return (subprocess.run is called
\* without a timeout), and on the range 00..10 (11 labels) with a lookup tool
\* that cannot be started (every lookup raises OSError), beside the
\* single-label runs of the scanning specification.
ClampConfigs ==
    {<<ZFill(Str(0), 2), ZFill(Str(MaxThreads - 1), 2), 25, {}>>,
     <<ZFill(Str(0), 2), ZFill(Str(MaxThreads), 2), 25, {"OSError"}>>}
    \cup ({NumLabel(0)} \X {NumLabel(0)} \X {1, 25} \X {Outcomes})
    \cup ({<<"a">>} \X {<<"b">>, <<"0">>} \X {1} \X {Outcomes})

InitClamp == \E c \in ClampConfigs : InitWith(c[1], c[2], c[3], c[4])

SpecClamp == InitClamp /\ [][Next]_vars

\* The two-run specification: check_domains with one worker, then a new
\* DomainChecker with four workers on the same range and the same lookup tool.
RerunConfigs ==
    ({NumLabel(0)} \X {NumLabel(k) : k \in 0..(MaxEnd + 1)} \X {1} \X {Outcomes})
    \cup ({<<"a">>} \X {<<"b">>, <<"0">>} \X {1} \X {Outcomes})

InitRerun == \E c \in RerunConfigs : InitWith(c[1], c[2], c[3], c[4])

\* checker = DomainChecker(num_threads=4); checker.check_domains(start, end),
\* after the run with one worker has returned or raised.
Rerun ==
    /\ run = 1
    /\ pc \in {"done", "error"}
    /\ run' = 2
    /\ prev_results' = results
    /\ requested' = 4
    /\ num_threads' = Clamp(4)
    /\ print_lock' = {}
    /\ available_file' = Header
    /\ registered_file' = Header
    /\ pc' = "generate"
    /\ error' = "none"
    /\ gen' = NewGenerator
    /\ domains' = <<>>
    /\ domain_batches' = <<>>
    /\ futures' = <<>>
    /\ collected' = {}
    /\ batch_num' = 0
    /\ results' = <<>>
    /\ summary' = [available |-> 0, registered |-> 0]
    /\ UNCHANGED <<start, end, outcomes, whois, others>>

NextRerun == Scan \/ Rerun

SpecRerun == InitRerun /\ [][NextRerun]_vars

(***************************************************************************)
(* CMHKBuyer.run (cmhk_buyer.py).                                          *)
(***************************************************************************)
\* self.max_retries = 3
max_retries == 3

\* What an attempt can come to: check_and_buy returns True after the order
\* was submitted; it returns False when a button or page is missing, the
\* product is out of stock, or any exception was caught inside it.
AttemptOutcomes == {"bought", "failed"}

\* if self.check_and_buy(): ... break
\* consecutive_errors = 0
\* The value of consecutive_errors after check_and_buy has returned `outcome`
\* without raising.
AfterAttempt(count, outcome) == IF outcome = "bought" THEN count ELSE 0

\* self.setup_driver(); if not self.set_cookies(): raise Exception(...)
\* A failure is caught by the outer except of run, which ends the program.
BuyerSetup ==
    /\ buyer_pc = "start"
    /\ \E ok \in BOOLEAN : buyer_pc' = IF ok THEN "loop" ELSE "exited"
    /\ UNCHANGED <<consecutive_errors, attempt_count, failed_in_row, reset_after_failure>>
    /\ UNCHANGED <<checker, monitor>>

\* One pass of the while loop up to the value of check_and_buy, which catches
\* every exception and returns False: True goes on to the notification,
\* False resets consecutive_errors, sleeps and loops.
Attempt ==
    /\ buyer_pc = "loop"
    /\ attempt_count < MaxAttempts
    /\ attempt_count' = attempt_count + 1
    /\ \E outcome \in AttemptOutcomes :
         /\ buyer_pc' = IF outcome = "bought" THEN "notify" ELSE "loop"
         /\ consecutive_errors' = AfterAttempt(consecutive_errors, outcome)
         /\ failed_in_row' = IF outcome = "bought" THEN 0 ELSE failed_in_row + 1
         /\ reset_after_failure' =
              IF consecutive_errors > 0 /\ AfterAttempt(consecutive_errors, outcome) = 0
              THEN outcome = "failed"
              ELSE reset_after_failure
    /\ UNCHANGED <<checker, monitor>>

\* sc_send(...) and input(...) after a True: when both return, break.
NotifyDone ==
    /\ buyer_pc = "notify"
    /\ buyer_pc' = "exited"
    /\ UNCHANGED <<consecutive_errors, attempt_count, failed_in_row, reset_after_failure>>
    /\ UNCHANGED <<checker, monitor>>

\* sc_send(...) or input(...) raises an Exception: the except clause of the
\* loop counts it, and breaks at max_retries; otherwise sleep and loop.
NotifyRaises ==
    /\ buyer_pc = "notify"
    /\ consecutive_errors' = consecutive_errors + 1
    /\ buyer_pc' = IF consecutive_errors + 1 >= max_retries THEN "exited" ELSE "loop"
    /\ UNCHANGED <<attempt_count, failed_in_row, reset_after_failure>>
    /\ UNCHANGED <<checker, monitor>>

NextBuyer ==
    \/ BuyerSetup
    \/ Attempt
    \/ NotifyDone
    \/ NotifyRaises

\* The buyer alone; the domain checker is constructed and never run.
InitBuyerOnly == InitWith(NumLabel(0), NumLabel(0), 1, Outcomes)

SpecBuyer == InitBuyerOnly /\ [][NextBuyer]_vars

(***************************************************************************)
(* NodeseekMonitor.check_posts (nodeseek_monitor.py).                      *)
(***************************************************************************)
\* if len(self.seen_posts) > 1000
TrimAbove == 1000

\* list(self.seen_posts)[-500:]
TrimKeep == 500

\* keyword_groups_to_monitor = [['出', 'acck'], ['出', 'cmhk']], the word
\* '出' written "chu".
keyword_groups == << {"chu", "acck"}, {"chu", "cmhk"} >>

\* The keywords the lower-cased title of post p contains; post ids are the
\* posts' links, numbered in the order of posting. Of four posts in a row
\* one matches the first group, one the second, one both and one none.
Title(p) ==
    CASE p % 4 = 1 -> {"chu", "acck"}
      [] p % 4 = 2 -> {"chu", "cmhk"}
      [] p % 4 = 3 -> {"chu", "acck", "cmhk"}
      [] OTHER -> {"shou", "acck"}

\* all(keyword.lower() in title.lower() for keyword in keywords)
Matches(p, g) == keyword_groups[g] \subseteq Title(p)

\* The notifications one pass of the loop over keyword_groups sends for a
\* post: the first matching group sends one and breaks.
Notifications(p) == IF \E g \in DOMAIN keyword_groups : Matches(p, g) THEN 1 ELSE 0

\* The posts on the page when the newest post is n.
Page(n) == Max(1, n - PageLen + 1)..n

\* The numbers of posts that can appear between two checks.
Arrivals == {0, 1, PageLen}

RECURSIVE Threshold(_, _, _, _)
\* The least t in lo..hi with at least k ids of S up to t (by bisection).
Threshold(S, k, lo, hi) ==
    IF lo >= hi THEN hi
    ELSE LET mid == (lo + hi) \div 2 IN
         IF Cardinality({p \in S : p <= mid}) >= k
         THEN Threshold(S, k, lo, mid)
         ELSE Threshold(S, k, mid + 1, hi)

\* The TrimKeep ids of S that follow its d smallest ids in ascending order.
KeepFrom(S, d) ==
    LET hi == Threshold(S, d + TrimKeep, 0, newest + PageLen)
        lo == Threshold(S, d, 0, newest + PageLen)
    IN {p \in S : p <= hi /\ (d = 0 \/ p > lo)}

\* set(list(self.seen_posts)[-500:]): the last 500 of the set in its
\* iteration order, which for a set of strings is any order; of the orders
\* the ones that keep the oldest 500 and the newest 500 ids are followed.
Trims(S) == {KeepFrom(S, 0), KeepFrom(S, Cardinality(S) - TrimKeep)}

\* requests.get or raise_for_status raises: the except clause logs and
\* reports the error with sc_send; no post is looked at.
CheckPostsFails ==
    /\ checks < MaxChecks
    /\ checks' = checks + 1
    /\ error_reports' = error_reports + 1
    /\ UNCHANGED <<seen_posts, notified, renotified, newest>>
    /\ UNCHANGED <<checker, buyer>>

\* One call of check_posts after `k` new posts: every post of the page that
\* is not in seen_posts and matches a group is notified once and added;
\* then the set is trimmed when it has more than 1000 entries.
CheckPosts ==
    /\ checks < MaxChecks
    /\ checks' = checks + 1
    /\ \E k \in Arrivals :
         LET n == newest + k
             fresh == {p \in Page(n) : p \notin seen_posts /\ Notifications(p) > 0}
             seen == seen_posts \cup fresh
         IN /\ newest' = n
            /\ notified' = notified \cup fresh
            /\ renotified' = renotified \cup (fresh \cap notified)
            /\ IF Cardinality(seen) > TrimAbove
               THEN seen_posts' \in Trims(seen)
               ELSE seen_posts' = seen
    /\ UNCHANGED <<checker, buyer, error_reports>>

NextMonitor ==
    \/ CheckPosts
    \/ CheckPostsFails

\* The monitor alone; the domain checker is constructed and never run.
SpecMonitor == InitBuyerOnly /\ [][NextMonitor]_vars

(***************************************************************************)
(* Claims.                                                                 *)
(***************************************************************************)
RECURSIVE Flatten(_)
Flatten(ss) == IF Len(ss) = 0 THEN <<>> ELSE Head(ss) \o Flatten(Tail(ss))

Count(x, s) == Cardinality({i \in 1..Len(s) : s[i] = x})

SameBag(a, b) == \A x \in Range(a) \cup Range(b) : Count(x, a) = Count(x, b)

\* The domains on the result lines of a file, in file order.
ResultLines(file) ==
    LET ls == SelectSeq(file, LAMBDA l : l.kind = "domain")
    IN [i \in 1..Len(ls) |-> ls[i].domain]

NoDuplicates(s) == \A i, j \in 1..Len(s) : s[i] = s[j] => i = j

Partitioned == pc \in {"submit", "collect", "batch_error_printed", "done"}

Submitted == pc \in {"collect", "batch_error_printed", "done"}

\* C1: for every label list, the empty one included, and every worker count
\* 1..10, computing the batches does not fail, and the batches concatenated
\* in index order are the label list.
ClaimC1 ==
    /\ Partitioned => Flatten(domain_batches) = domains
    /\ ~(pc = "error" /\ gen.state = "exhausted")

\* C2: a run with one worker and a run with four workers over the same
\* range and the same lookup tool return the same multiset of results.
ClaimC2 == (run = 2 /\ pc = "done") => SameBag(results, prev_results)

NoLookupFailed == \A d \in DOMAIN whois : whois[d] \in {"DOMAIN NOT FOUND", "registered"}

FullDomains == [i \in 1..Len(domains) |-> FullDomain(domains[i])]

\* C3: after a completed run with one worker in which no lookup failed, the
\* available file holds exactly the domains whose output held the marker,
\* the registered file exactly the other domains of the range, each once,
\* and the summary counts are the numbers of result lines of the two files.
ClaimC3 ==
    (pc = "done" /\ num_threads = 1 /\ NoLookupFailed) =>
        /\ Range(FullDomains) \subseteq DOMAIN whois
        /\ Range(ResultLines(available_file)) =
             {d \in Range(FullDomains) : whois[d] = "DOMAIN NOT FOUND"}
        /\ Range(ResultLines(registered_file)) =
             {d \in Range(FullDomains) : whois[d] # "DOMAIN NOT FOUND"}
        /\ NoDuplicates(ResultLines(available_file))
        /\ NoDuplicates(ResultLines(registered_file))
        /\ SubSeq(available_file, 1, 2) = Header
        /\ SubSeq(registered_file, 1, 2) = Header
        /\ summary.available = Len(ResultLines(available_file))
        /\ summary.registered = Len(ResultLines(registered_file))

\* The scenario of the claim: 000..002, one worker, only 001.xyz not found.
WitnessC3 ==
    /\ pc = "done" /\ num_threads = 1 /\ NoLookupFailed
    /\ start = NumLabel(0) /\ end = NumLabel(2)
    /\ ResultLines(available_file) = <<FullDomain(NumLabel(1))>>
    /\ ResultLines(registered_file) = <<FullDomain(NumLabel(0)), FullDomain(NumLabel(2))>>
    /\ summary = [available |-> 1, registered |-> 2]

\* C4 as stated: with more than 10 workers requested and at least 10 labels,
\* exactly 10 batch tasks are dispatched and never more than 10 run at once.
ClaimC4 ==
    (requested > MaxThreads /\ Len(domains) >= MaxThreads) =>
        /\ Submitted => Len(futures) = MaxThreads
        /\ Cardinality(Running) <= MaxThreads

\* C4 as amended: with more than 10 workers requested the worker count is 10,
\* ceil(N / ceil(N / 10)) batch tasks are dispatched for N labels, which is
\* at most 10, and never more than 10 run at once.
AmendedC4 ==
    requested > MaxThreads =>
        /\ num_threads = MaxThreads
        /\ Len(domain_batches) <= MaxThreads
        /\ Len(futures) <= MaxThreads
        /\ Submitted => Len(futures) = Ceil(Len(domains), Ceil(Len(domains), MaxThreads))
        /\ Cardinality(Running) <= MaxThreads

\* 25 workers requested, 10 labels: ten batch tasks are running at once.
WitnessC4 ==
    /\ requested = 25 /\ Len(domains) = MaxThreads
    /\ Submitted /\ Len(futures) = MaxThreads
    /\ Cardinality(Running) = MaxThreads

\* C5: every call of check_domain that has returned has slept, on the
\* failure path as on the success path: a task has slept once per result.
ClaimC5 == \A t \in Tasks : futures[t].slept = Len(futures[t].results)

LookupFailed(d) == d \in DOMAIN whois /\ whois[d] \in {"SubprocessError", "OSError"}

\* C6: a failed lookup is caught inside check_domain: no batch task fails,
\* and the result returned for a domain whose lookup failed is (domain, False).
ClaimC6 ==
    \A t \in Tasks :
        /\ futures[t].state # "raised"
        /\ \A i \in 1..Len(futures[t].results) :
             LookupFailed(futures[t].results[i][1]) => ~futures[t].results[i][2]

\* C7: every result check_domain has returned is on a line of its file; a
\* (domain, False), also of a failed lookup, is in the registered file.
ClaimC7 ==
    \A t \in Tasks : \A i \in 1..Len(futures[t].results) :
        LET r == futures[t].results[i] IN
        r[1] \in Range(ResultLines(IF r[2] THEN available_file ELSE registered_file))

ValidAlpha ==
    /\ ~(IsDigit(start) /\ IsDigit(end))
    /\ IsAlpha(start) /\ IsAlpha(end) /\ Len(start) = Len(end)

\* C8: for a valid alphabetic range the generator stops after yielding the
\* lower-case form of end: nothing is yielded after it.
ClaimC8 ==
    ValidAlpha => \A i \in 1..Len(domains) : domains[i] = Lower(end) => i = Len(domains)

RECURSIVE AlphaValue(_)
\* A lower-case string read as a base-26 numeral.
AlphaValue(s) == IF Len(s) = 0 THEN 0
                 ELSE Len(LowerCase) * AlphaValue(SubSeq(s, 1, Len(s) - 1))
                      + (IndexOf(s[Len(s)], LowerCase) - 1)

\* C9: for a valid alphabetic range with lower(start) <= lower(end) the
\* generator yields the strings from lower(start) to lower(end), each once,
\* in odometer order, and no other.
ClaimC9 ==
    (ValidAlpha /\ ListLeq(Lower(start), Lower(end))) =>
        /\ \A i \in 1..Len(domains) :
             /\ Len(domains[i]) = Len(start)
             /\ domains[i] \in [1..Len(start) -> Range(LowerCase)]
             /\ AlphaValue(domains[i]) = AlphaValue(Lower(start)) + i - 1
             /\ AlphaValue(domains[i]) <= AlphaValue(Lower(end))
        /\ gen.state = "exhausted" =>
             Len(domains) = AlphaValue(Lower(end)) - AlphaValue(Lower(start)) + 1

ValidNumeric == IsDigit(start) /\ IsDigit(end)

\* C10: for all-digit start and end with int(start) <= int(end) the
\* generator yields the integers int(start)..int(end) in ascending order,
\* each once, each zero-padded to width max(len(start), len(end)).
ClaimC10 ==
    (ValidNumeric /\ ParseInt(start) <= ParseInt(end)) =>
        /\ \A i \in 1..Len(domains) :
             /\ IsDigit(domains[i])
             /\ Len(domains[i]) = Max(Len(start), Len(end))
             /\ ParseInt(domains[i]) = ParseInt(start) + i - 1
             /\ ParseInt(domains[i]) <= ParseInt(end)
        /\ gen.state = "exhausted" =>
             Len(domains) = ParseInt(end) - ParseInt(start) + 1

\* '9'..'10' has been generated: 09, 10.
WitnessC10 ==
    /\ start = <<"9">> /\ end = <<"1", "0">>
    /\ gen.state = "exhausted"
    /\ domains = << <<"0", "9">>, <<"1", "0">> >>

\* C11: for all-digit start and end with int(end) < int(start) the generator
\* yields nothing and raises nothing: list() returns the empty list.
ClaimC11 ==
    (ValidNumeric /\ ParseInt(end) < ParseInt(start)) =>
        /\ domains = <<>>
        /\ gen.state \in {"created", "numeric", "exhausted"}
        /\ pc \in {"generate", "partition"}
        /\ error = "none"

\* '9'..'0' has been generated: list() has returned the empty list.
WitnessC11 ==
    /\ start = <<"9">> /\ end = <<"0">>
    /\ gen.state = "exhausted" /\ pc = "partition"
    /\ domains = <<>>

Letters == Range(LowerCase) \cup Range(UpperCase)

AllDigits(s) == Len(s) > 0 /\ Range(s) \subseteq Range(Digits)

AllLetters(s) == Len(s) > 0 /\ Range(s) \subseteq Letters

\* start and end are of mixed class, or alphabetic of different lengths.
MalformedRange ==
    /\ ~(AllDigits(start) /\ AllDigits(end))
    /\ ~(AllLetters(start) /\ AllLetters(end) /\ Len(start) = Len(end))

\* C12: on a range of mixed class or an alphabetic range of different
\* lengths the generator raises the range error and yields no label, and the
\* run ends there: no batch, no task, no lookup, no result line.
ClaimC12 ==
    MalformedRange =>
        /\ domains = <<>>
        /\ gen.state \in {"created", "raised"}
        /\ pc \in {"generate", "error", "interrupted"}
        /\ pc = "error" => error = "ValueError"
        /\ gen.state = "raised" => pc = "error"
        /\ domain_batches = <<>> /\ futures = <<>>
        /\ whois = <<>>
        /\ available_file = Header /\ registered_file = Header

\* 'a'..'aa' has raised the range error.
WitnessC12 ==
    /\ start = <<"a">> /\ end = <<"a", "a">>
    /\ gen.state = "raised" /\ pc = "error" /\ error = "ValueError"

\* The kinds of output whose text holds the marker, letter for letter.
MarkerKinds == {"DOMAIN NOT FOUND", "embedded"}

\* The tasks that have classified their current domain.
Classified == {t \in Tasks : futures[t].wpc \in {"write", "written", "print", "printed", "sleep"}}

\* The results of all tasks.
TaskResults == UNION {Range(futures[t].results) : t \in Tasks}

\* C13: a domain is classified available exactly when the captured output
\* holds the marker 'DOMAIN NOT FOUND' letter for letter; empty output, the
\* marker in another case and every other output classify as registered,
\* and two domains with the same output get the same classification.
ClaimC13 ==
    /\ \A t \in Classified :
         futures[t].is_available <=> (whois[CurrentDomain(t)] \in MarkerKinds)
    /\ \A r \in TaskResults :
         whois[r[1]] \in OutputKinds => (r[2] <=> (whois[r[1]] \in MarkerKinds))
    /\ \A r1, r2 \in TaskResults :
         (whois[r1[1]] \in OutputKinds /\ whois[r1[1]] = whois[r2[1]]) => r1[2] = r2[2]

\* 000.xyz answered with the marker inside a longer line and was classified
\* available, 001.xyz with the marker in lower case and was classified registered.
WitnessC13 ==
    /\ pc = "done"
    /\ results = << <<FullDomain(NumLabel(0)), TRUE>>, <<FullDomain(NumLabel(1)), FALSE>> >>
    /\ whois[FullDomain(NumLabel(0))] = "embedded"
    /\ whois[FullDomain(NumLabel(1))] = "domain not found"

\* One header block at the start, then domain lines only.
WellFormed(file) ==
    /\ Len(file) >= Len(Header)
    /\ SubSeq(file, 1, Len(Header)) = Header
    /\ \A i \in (Len(Header) + 1)..Len(file) : file[i].kind = "domain"

\* C14: in every reachable state each of the two output files is one header
\* block (title line, separator line) followed by zero or more domain lines;
\* no result write of any worker adds, removes or rewrites a header.
ClaimC14 ==
    /\ WellFormed(available_file)
    /\ WellFormed(registered_file)

\* Several workers have appended to the files: two lines in one, one in the other.
WitnessC14 ==
    /\ num_threads > 1
    /\ Len(futures) > 1
    /\ Len(ResultLines(available_file)) >= 2
    /\ Len(ResultLines(registered_file)) >= 1
    /\ ClaimC14

\* The workers inside a with self.print_lock block.
InCritical == {t \in Tasks : futures[t].wpc \in {"written", "printed", "error_printed"}}

\* A step that changes a result file is a worker's append made inside its
\* critical section.
LockedAppend ==
    files' # files =>
        \E t \in Tasks :
            /\ t \in print_lock'
            /\ futures[t].wpc = "write"
            /\ futures'[t].wpc = "written"

\* A step in which a worker prints is made by the holder of the lock.
LockedPrint ==
    \A t \in Tasks :
        (futures'[t].wpc \in {"printed", "error_printed"} /\ futures'[t].wpc # futures[t].wpc)
            => print_lock' = {t}

\* C15: every append to a result file and every progress or error print of a
\* worker happens while the worker holds the single shared lock; at most one
\* worker is inside a write or print critical section at any time.
ClaimC15 ==
    /\ [](/\ Cardinality(InCritical) <= 1
          /\ Cardinality(print_lock) <= 1
          /\ InCritical = print_lock \ {0})
    /\ [][LockedAppend /\ LockedPrint]_vars

\* One worker is inside a critical section while another waits to enter one.
WitnessC15 ==
    \E t, u \in Tasks :
        /\ t # u
        /\ print_lock = {t}
        /\ futures[t].wpc = "written"
        /\ futures[u].state = "running"
        /\ futures[u].wpc \in {"write", "print", "except"}

\* The batches that raised.
Raised == {t \in Tasks : futures[t].state = "raised"}

\* The batches that returned their list of results.
Finished == {t \in Tasks : futures[t].state = "finished"}

\* The results of the batches the collection loop has taken and that returned.
CollectedResults == UNION {Range(futures[t].results) : t \in collected \cap Finished}

\* C16: a batch that raised is caught in the collection loop and logged with
\* its batch index; it adds nothing to the aggregate, every other batch runs
\* to its end with all of its results in the returned list and the totals,
\* and the run still completes with a summary.
ClaimC16 ==
    /\ [](pc = "error" => futures = <<>>)
    /\ [](pc = "batch_error_printed" =>
            /\ batch_num + 1 \in Raised \cap collected
            /\ print_lock = {0})
    /\ [](/\ Range(results) = CollectedResults
          /\ NoDuplicates(results))
    /\ [](pc = "done" =>
            /\ Tasks = Raised \cup Finished
            /\ collected = Tasks
            /\ \A t \in Finished : Len(futures[t].results) = Len(domain_batches[t])
            /\ summary.available = AvailableCount(results)
            /\ summary.available + summary.registered = Len(results))
    /\ (Raised # {}) ~> (pc = "done")

\* A completed run in which one batch raised and another returned results.
WitnessC16 ==
    /\ pc = "done"
    /\ Raised # {}
    /\ \E t \in Finished : Len(futures[t].results) > 0
    /\ Len(results) > 0
    /\ Len(results) < Len(domains)

IsPrefix(a, b) == Len(a) <= Len(b) /\ SubSeq(b, 1, Len(a)) = a

\* The next step of worker t.
WorkerStep(t) ==
    \/ Lookup(t)
    \/ WriteToFile(t)
    \/ WriteRelease(t)
    \/ PrintChecked(t)
    \/ PrintRelease(t)
    \/ Sleep(t)
    \/ PrintError(t)
    \/ ErrorReturn(t)

\* Worker t waits for the lock another thread holds.
WaitsForLock(t) == futures[t].wpc \in {"write", "print", "except"} /\ print_lock # {}

Interrupted == error = "KeyboardInterrupt"

\* C17: an interrupt during the scan ends the run as interrupted with nothing
\* rolled back: the lines written so far stay in their files, both files stay
\* a header followed by whole domain lines, the running workers are not
\* terminated, and the interrupt is handled in main(), never as an error.
ClaimC17 ==
    /\ [][/\ IsPrefix(available_file, available_file')
          /\ IsPrefix(registered_file, registered_file')]_vars
    /\ [][(~Interrupted /\ Interrupted') => (futures' = futures /\ files' = files)]_vars
    /\ [](Interrupted =>
            /\ WellFormed(available_file) /\ WellFormed(registered_file)
            /\ pc \in {"shutdown", "interrupted"}
            /\ \A t \in Running : ~WaitsForLock(t) => ENABLED WorkerStep(t)
            /\ (pc = "shutdown" /\ AllResolved) => ENABLED ShutdownDone)
    /\ [](pc = "interrupted" => Interrupted)

\* The scan was interrupted while a worker was running, the worker has gone
\* on to its end, and the lines written are in the files.
WitnessC17 ==
    /\ pc = "interrupted"
    /\ Interrupted
    /\ AllResolved
    /\ Len(futures) > 1
    /\ collected # Tasks
    /\ Len(ResultLines(available_file)) + Len(ResultLines(registered_file)) > Len(results)

\* The phases of a run in their order; a range error ends the run beside them.
PhaseRank(p) ==
    CASE p = "generate" -> 1
      [] p = "partition" -> 2
      [] p \in {"submit", "collect", "batch_error_printed", "shutdown"} -> 3
      [] p \in {"interrupted", "done", "error"} -> 4

Ended(p) == p \in {"interrupted", "done", "error"}

\* C18: a run passes through generating, partitioning and scanning in this
\* order and ends interrupted or completed; no lookup starts before the whole
\* list is generated and partitioned, and the summary is printed only after
\* every submitted batch task has returned or raised.
ClaimC18 ==
    /\ [][/\ PhaseRank(pc') >= PhaseRank(pc)
          /\ Ended(pc) => pc' = pc
          /\ (pc' = "done" /\ pc # "done") => PhaseRank(pc) = 3]_vars
    /\ [](pc = "generate" =>
            /\ domain_batches = <<>>
            /\ available_file = Header /\ registered_file = Header)
    /\ []((whois # <<>> \/ Running # {}) =>
            /\ gen.state = "exhausted"
            /\ Flatten(domain_batches) = domains
            /\ PhaseRank(pc) >= 3)
    /\ [](pc = "done" =>
            /\ Len(futures) = Len(domain_batches)
            /\ AllResolved
            /\ collected = Tasks)

\* A completed scan of several batches.
WitnessC18 ==
    /\ pc = "done"
    /\ Len(futures) > 1
    /\ AllResolved
    /\ Len(results) > 1

\* The i-th domain of batch t.
BatchDomain(t, i) == FullDomain(domain_batches[t][i])

\* The domains that have a line in one of the two files.
Written == Range(ResultLines(available_file)) \cup Range(ResultLines(registered_file))

\* The lines of one batch are in the file in the batch's order.
LinesInBatchOrder(file) ==
    LET ls == ResultLines(file) IN
    \A t \in Tasks : \A i, j \in 1..Len(domain_batches[t]) : \A p, q \in 1..Len(ls) :
        (ls[p] = BatchDomain(t, i) /\ ls[q] = BatchDomain(t, j) /\ p < q) => i < j

\* The list a batch returns holds its domains in the batch's order, and the
\* worker is at the label after the ones it has results for.
ReturnedInBatchOrder ==
    \A t \in Tasks :
        /\ \A i \in 1..Len(futures[t].results) : futures[t].results[i][1] = BatchDomain(t, i)
        /\ Len(futures[t].results) \in {futures[t].idx - 1, futures[t].idx}

\* The labels of a batch before the one the worker is at have been written.
PreviousWritten ==
    \A t \in Tasks : \A i \in 1..(futures[t].idx - 1) : BatchDomain(t, i) \in Written

\* C19: within one batch the labels are checked in generator order, one at a
\* time; the lookup of a label starts only after the previous label of the
\* batch has been classified and written, the lines one worker writes are in
\* the files in the batch's order, and the returned list is in batch order.
ClaimC19 ==
    /\ PreviousWritten
    /\ ReturnedInBatchOrder
    /\ LinesInBatchOrder(available_file)
    /\ LinesInBatchOrder(registered_file)

\* The least s with s * w >= n.
LeastCover(n, w) == CHOOSE s \in 0..n : s * w >= n /\ \A r \in 0..(s - 1) : r * w < n

Pending == {t \in Tasks : futures[t].state = "pending"}

EmptyNumericRange == ValidNumeric /\ ParseInt(end) < ParseInt(start)

\* C21: a run over a valid range that yields no label (numeric end < start)
\* is not aborted: it ends in no error, and its summary, once printed, counts
\* 0 available and 0 registered domains.
ClaimC21 ==
    EmptyNumericRange =>
        /\ pc # "error"
        /\ error \in {"none", "KeyboardInterrupt"}
        /\ pc = "done" => summary = [available |-> 0, registered |-> 0]

\* The domain lines of the two files taken together.
AllLines == ResultLines(available_file) \o ResultLines(registered_file)

\* The domains of the range start..end, computed from the inputs.
RangeDomains ==
    IF ValidNumeric
    THEN {FullDomain(ZFill(Str(k), Max(Len(start), Len(end)))) :
            k \in ParseInt(start)..ParseInt(end)}
    ELSE IF ValidAlpha
    THEN {FullDomain(s) : s \in {x \in [1..Len(start) -> Range(LowerCase)] :
            /\ AlphaValue(Lower(start)) <= AlphaValue(x)
            /\ AlphaValue(x) <= AlphaValue(Lower(end))}}
    ELSE {}

\* C22: in every reachable state, under any interleaving of the workers, no
\* domain is on more than one line of the two result files taken together,
\* and every domain line is a domain of the range; when the run completes
\* and no lookup and no task failed, every label of the range has exactly
\* one line.
ClaimC22 ==
    /\ NoDuplicates(AllLines)
    /\ Range(AllLines) \subseteq RangeDomains
    /\ (pc = "done" /\ NoLookupFailed /\ Raised = {}) =>
          /\ Range(AllLines) = RangeDomains
          /\ Len(AllLines) = Len(domains)

\* A completed run of several workers without a failure, with lines in both files.
WitnessC22 ==
    /\ pc = "done" /\ NoLookupFailed /\ Raised = {}
    /\ Len(futures) > 1
    /\ Len(domains) > 2
    /\ Len(ResultLines(available_file)) > 0
    /\ Len(ResultLines(registered_file)) > 0
    /\ Len(AllLines) = Len(domains)

\* The steps of a worker that enter a with self.print_lock block.
AtAcquire(t) == futures[t].wpc \in {"write", "print", "except"}

\* No thread asks for the lock it holds, and a task that has ended holds none.
LockDiscipline ==
    /\ Cardinality(print_lock) <= 1
    /\ \A t \in Tasks \cap print_lock : futures[t].state = "running" /\ ~AtAcquire(t)
    /\ 0 \in print_lock => pc = "batch_error_printed"

\* Every worker has gone through every label of its batch.
AllLabelsFinished ==
    \A t \in Tasks : futures[t].state = "finished"
                     /\ Len(futures[t].results) = Len(domain_batches[t])

\* C23: the lock cannot deadlock the scan: no worker asks for the lock while
\* holding it, the lock is released on every path out of a critical section,
\* a failed write included, and under fair scheduling with every lookup and
\* sleep terminating every worker finishes every label of its batch and the
\* run over a non-empty valid range completes.
ClaimC23 ==
    /\ []LockDiscipline
    /\ (print_lock # {}) ~> (print_lock = {})
    /\ [](pc = "done" => AllLabelsFinished)
    /\ (RangeDomains # {}) ~> (pc = "done")

\* C24: CMHKBuyer.run stops retrying after max_retries (3) failed purchase
\* attempts in a row: once three attempts in a row have failed the loop has
\* exited, and the count of consecutive failures is reset only by an attempt
\* that did not fail.
ClaimC24 ==
    /\ failed_in_row >= max_retries => buyer_pc = "exited"
    /\ ~reset_after_failure

\* C25: a post that was processed is skipped: across any sequence of
\* check_posts calls no post id triggers more than one notification, also
\* after the set of seen posts has been trimmed from more than 1000 entries
\* to 500.
ClaimC25 ==
    /\ renotified = {}
    /\ \A p \in notified : Notifications(p) = 1

====
